---- MODULE Spec2Model ----
(***************************************************************************)
(* nu-ansi-term, src/ansi.rs: the prefix / suffix / infix encoders of a    *)
(* Style, written against an abstract sink.                                *)
(*                                                                         *)
(* A byte string is a sequence of one-character strings; "ESC" stands for  *)
(* the byte 0x1B.  The sink records every fragment written to it, counts   *)
(* the write calls, and may fail on its fail_at-th write (0 = never).  A   *)
(* character sink (kind "fmt") holds such strings; a byte sink (kind       *)
(* "io") holds numbers 0..255.                                             *)
(***************************************************************************)
EXTENDS Integers, Sequences, FiniteSets, TLC

VARIABLES gnu_legacy, current, next, text, f, pc

vars == <<gnu_legacy, current, next, text, f, pc>>

(***************************************************************************)
(* Bounds of the model.                                                    *)
(***************************************************************************)
\* largest k for which a sink failing on its k-th write is explored
MaxFailAt == 30
\* how many of the attributes vary in the Styles of a transition pair
NumPairAttrs == 3
\* longest text that is painted
MaxTextLen == 2

(***************************************************************************)
(* Data model: Option<Color>, Color, Style (crate::style).                 *)
(***************************************************************************)
None == [tag |-> "None"]
Some(v) == [tag |-> "Some", val |-> v]

Named(k) == [kind |-> k]
Fixed(n) == [kind |-> "Fixed", num |-> n]
Rgb(r, g, b) == [kind |-> "Rgb", r |-> r, g |-> g, b |-> b]

NamedKinds ==
    {"Black", "Red", "Green", "Yellow", "Blue", "Purple", "Magenta", "Cyan",
     "White", "Default", "DarkGray", "LightRed", "LightGreen", "LightYellow",
     "LightBlue", "LightPurple", "LightMagenta", "LightCyan", "LightGray"}

\* the eight attribute flags of a Style, in the order write_prefix tests them
AttrFields ==
    <<"is_bold", "is_dimmed", "is_italic", "is_underline", "is_blink",
      "is_reverse", "is_hidden", "is_strikethrough">>

AttrSet == {AttrFields[i] : i \in 1..Len(AttrFields)}

StyleDefault ==
    [foreground |-> None, background |-> None,
     is_bold |-> FALSE, is_dimmed |-> FALSE, is_italic |-> FALSE,
     is_underline |-> FALSE, is_blink |-> FALSE, is_reverse |-> FALSE,
     is_hidden |-> FALSE, is_strikethrough |-> FALSE,
     prefix_with_reset |-> FALSE]

\* the attributes a Style has set
Attrs(s) == {a \in AttrSet : s[a]}

\* the Style with exactly the attributes as, the given colors and reset flag
MkStyle(as, fg, bg, rst) ==
    [foreground |-> fg, background |-> bg,
     is_bold |-> "is_bold" \in as, is_dimmed |-> "is_dimmed" \in as,
     is_italic |-> "is_italic" \in as, is_underline |-> "is_underline" \in as,
     is_blink |-> "is_blink" \in as, is_reverse |-> "is_reverse" \in as,
     is_hidden |-> "is_hidden" \in as,
     is_strikethrough |-> "is_strikethrough" \in as,
     prefix_with_reset |-> rst]

\* Style::is_plain: no attribute and no color
is_plain(s) ==
    /\ Attrs(s) = {}
    /\ s.foreground = None
    /\ s.background = None

\* Color::normal: the Style with this foreground and nothing else
normal(c) == [StyleDefault EXCEPT !.foreground = Some(c)]

(***************************************************************************)
(* The sink (crate::write::AnyWrite) and the `?` after every write.        *)
(***************************************************************************)
ESC == "ESC"

\* a character outside ASCII: U+00E9, two bytes in UTF-8
EAcute == "U+00E9"

\* buf is the sink's content, log the fragments it accepted, one per write
NewSink(k) ==
    [kind |-> "fmt", buf |-> <<>>, log |-> <<>>, writes |-> 0, fail_at |-> k,
     failed |-> FALSE]

DigitChars == <<"0", "1", "2", "3", "4", "5", "6", "7", "8", "9">>

\* a byte sink (io::Write), such as a Vec<u8>
NewByteSink(k) == [NewSink(k) EXCEPT !.kind = "io"]

\* the UTF-8 bytes of a character
Utf8(ch) ==
    CASE ch = ESC -> <<27>>
      [] ch = "[" -> <<91>>
      [] ch = ";" -> <<59>>
      [] ch = "m" -> <<109>>
      [] ch = "h" -> <<104>>
      [] ch = "i" -> <<105>>
      [] ch = EAcute -> <<195, 169>>
      [] OTHER -> <<48 + (CHOOSE d \in 0..9 : DigitChars[d + 1] = ch)>>

\* str::as_bytes: the UTF-8 bytes of a string
RECURSIVE as_bytes(_)
as_bytes(str) ==
    IF str = <<>> THEN <<>> ELSE Utf8(Head(str)) \o as_bytes(Tail(str))

\* `str: AsRef<W::Buf>`: a literal as the sink's kind of buffer takes it
as_ref(w, frag) == IF w.kind = "io" THEN as_bytes(frag) ELSE frag

\* one write call on the sink: the fail_at-th call fails and stores nothing
sink_write(w, frag) ==
    IF w.writes + 1 = w.fail_at
    THEN [w EXCEPT !.writes = @ + 1, !.failed = TRUE]
    ELSE [w EXCEPT !.writes = @ + 1, !.buf = @ \o frag,
                   !.log = Append(@, frag)]

\* a mutant of write_q: the error of a write is dropped and the encoder goes on
write_q_ignoring(w, frag) == sink_write(w, as_ref(w, frag))

\* `write_any_str!(f, s)?` / `write_any_fmt!(f, ..)?`: once a write has failed
\* the function has returned, so nothing after it runs
write_q(w, frag) == IF w.failed THEN w ELSE sink_write(w, as_ref(w, frag))

\* `{}` of an unsigned integer: its decimal digits, most significant first
RECURSIVE Decimal(_)
Decimal(n) ==
    IF n < 10 THEN <<DigitChars[n + 1]>>
    ELSE Decimal(n \div 10) \o <<DigitChars[(n % 10) + 1]>>

RESET == <<ESC, "[", "0", "m">>

(***************************************************************************)
(* Color::write_foreground_code / write_background_code.                   *)
(***************************************************************************)
foreground_code(c) ==
    CASE c.kind = "Black" -> <<"3", "0">>
      [] c.kind = "Red" -> <<"3", "1">>
      [] c.kind = "Green" -> <<"3", "2">>
      [] c.kind = "Yellow" -> <<"3", "3">>
      [] c.kind = "Blue" -> <<"3", "4">>
      [] c.kind = "Purple" -> <<"3", "5">>
      [] c.kind = "Magenta" -> <<"3", "5">>
      [] c.kind = "Cyan" -> <<"3", "6">>
      [] c.kind = "White" -> <<"3", "7">>
      [] c.kind = "Fixed" -> <<"3", "8", ";", "5", ";">> \o Decimal(c.num)
      [] c.kind = "Rgb" ->
            <<"3", "8", ";", "2", ";">> \o Decimal(c.r) \o <<";">>
                \o Decimal(c.g) \o <<";">> \o Decimal(c.b)
      [] c.kind = "Default" -> <<"3", "9">>
      [] c.kind = "DarkGray" -> <<"9", "0">>
      [] c.kind = "LightRed" -> <<"9", "1">>
      [] c.kind = "LightGreen" -> <<"9", "2">>
      [] c.kind = "LightYellow" -> <<"9", "3">>
      [] c.kind = "LightBlue" -> <<"9", "4">>
      [] c.kind = "LightPurple" -> <<"9", "5">>
      [] c.kind = "LightMagenta" -> <<"9", "5">>
      [] c.kind = "LightCyan" -> <<"9", "6">>
      [] c.kind = "LightGray" -> <<"9", "7">>

\* a mutant of background_code: the foreground code with a leading "4", so a
\* bright background is written as the normal one
background_code_bright_as_normal(c) == <<"4">> \o Tail(foreground_code(c))

background_code(c) ==
    CASE c.kind = "Black" -> <<"4", "0">>
      [] c.kind = "Red" -> <<"4", "1">>
      [] c.kind = "Green" -> <<"4", "2">>
      [] c.kind = "Yellow" -> <<"4", "3">>
      [] c.kind = "Blue" -> <<"4", "4">>
      [] c.kind = "Purple" -> <<"4", "5">>
      [] c.kind = "Magenta" -> <<"4", "5">>
      [] c.kind = "Cyan" -> <<"4", "6">>
      [] c.kind = "White" -> <<"4", "7">>
      [] c.kind = "Fixed" -> <<"4", "8", ";", "5", ";">> \o Decimal(c.num)
      [] c.kind = "Rgb" ->
            <<"4", "8", ";", "2", ";">> \o Decimal(c.r) \o <<";">>
                \o Decimal(c.g) \o <<";">> \o Decimal(c.b)
      [] c.kind = "Default" -> <<"4", "9">>
      [] c.kind = "DarkGray" -> <<"1", "0", "0">>
      [] c.kind = "LightRed" -> <<"1", "0", "1">>
      [] c.kind = "LightGreen" -> <<"1", "0", "2">>
      [] c.kind = "LightYellow" -> <<"1", "0", "3">>
      [] c.kind = "LightBlue" -> <<"1", "0", "4">>
      [] c.kind = "LightPurple" -> <<"1", "0", "5">>
      [] c.kind = "LightMagenta" -> <<"1", "0", "5">>
      [] c.kind = "LightCyan" -> <<"1", "0", "6">>
      [] c.kind = "LightGray" -> <<"1", "0", "7">>

\* each arm is a single write of the whole fragment
write_foreground_code(c, w) == write_q(w, foreground_code(c))

write_background_code(c, w) == write_q(w, background_code(c))

(***************************************************************************)
(* Style::write_prefix and Style::write_suffix.                            *)
(* The encoder's locals are a record [w, written_anything].                *)
(***************************************************************************)
\* a mutant of write_char_in: the separator is written before every code
write_char_in_always_sep(legacy, st, c) ==
    LET w1 == write_q(st.w, <<";">>)
        w2 == IF legacy THEN write_q(w1, <<"0">>) ELSE w1
    IN  [w |-> write_q(w2, <<c>>), written_anything |-> TRUE]

\* a mutant of write_char_in: the "0" of gnu_legacy is left out
write_char_in_no_zero(legacy, st, c) ==
    LET w1 == IF st.written_anything THEN write_q(st.w, <<";">>) ELSE st.w
    IN  [w |-> write_q(w1, <<c>>), written_anything |-> TRUE]

\* the closure write_char, in a build with (legacy) or without the feature
\* gnu_legacy: a separator unless this is the first code, then (gnu_legacy
\* only) a "0", then the attribute's digit
write_char_in(legacy, st, c) ==
    LET w1 == IF st.written_anything THEN write_q(st.w, <<";">>) ELSE st.w
        w2 == IF legacy THEN write_q(w1, <<"0">>) ELSE w1
    IN  [w |-> write_q(w2, <<c>>), written_anything |-> TRUE]

\* a mutant of write_reset_prefix: the flag is ignored
write_reset_prefix_never(s, w) == w

\* "Prefix everything with reset characters if needed"
write_reset_prefix(s, w) ==
    IF s.prefix_with_reset THEN write_q(w, RESET) ELSE w

\* the eight attribute tests, in source order
write_attrs_in(legacy, s, st0) ==
    LET wc(st, c) == write_char_in(legacy, st, c)
        st1 == IF s.is_bold THEN wc(st0, "1") ELSE st0
        st2 == IF s.is_dimmed THEN wc(st1, "2") ELSE st1
        st3 == IF s.is_italic THEN wc(st2, "3") ELSE st2
        st4 == IF s.is_underline THEN wc(st3, "4") ELSE st3
        st5 == IF s.is_blink THEN wc(st4, "5") ELSE st4
        st6 == IF s.is_reverse THEN wc(st5, "7") ELSE st5
        st7 == IF s.is_hidden THEN wc(st6, "8") ELSE st6
    IN  IF s.is_strikethrough THEN wc(st7, "9") ELSE st7

\* background first, then foreground, each after a separator if needed
write_colors(s, st0) ==
    LET st1 ==
            IF s.background.tag = "Some"
            THEN LET w1 == IF st0.written_anything
                           THEN write_q(st0.w, <<";">>) ELSE st0.w
                 IN  [w |-> write_background_code(s.background.val, w1),
                      written_anything |-> TRUE]
            ELSE st0
    IN  IF s.foreground.tag = "Some"
        THEN LET w1 == IF st1.written_anything
                       THEN write_q(st1.w, <<";">>) ELSE st1.w
             IN  write_foreground_code(s.foreground.val, w1)
        ELSE st1.w

\* write_prefix after its plain short-circuit, in either build
write_codes_in(legacy, s, w) ==
    LET w1 == write_reset_prefix(s, w)
        w2 == write_q(w1, <<ESC, "[">>)
        st == write_attrs_in(legacy, s, [w |-> w2, written_anything |-> FALSE])
    IN  write_q(write_colors(s, st), <<"m">>)

\* write_prefix after its plain short-circuit, in the build that runs
write_codes(s, w) == write_codes_in(gnu_legacy, s, w)

\* a mutant of write_prefix: no short-circuit for a plain Style
write_prefix_no_plain_check(s, w) == write_codes(s, w)

\* a mutant of write_prefix: plain is taken to mean equal to Style::default(),
\* so a Style with only prefix_with_reset is encoded
write_prefix_plain_is_default(s, w) ==
    IF s = StyleDefault THEN w ELSE write_codes(s, w)

write_prefix(s, w) == IF is_plain(s) THEN w ELSE write_codes(s, w)

\* write_prefix as the build without gnu_legacy compiles it
write_prefix_default_build(s, w) ==
    IF is_plain(s) THEN w ELSE write_codes_in(FALSE, s, w)

\* a mutant of write_suffix: the reset is written for a plain Style too
write_suffix_always(s, w) == write_q(w, RESET)

write_suffix(s, w) == IF is_plain(s) THEN w ELSE write_q(w, RESET)

\* what the call returns
Result(w) == IF w.failed THEN "Err" ELSE "Ok"

(***************************************************************************)
(* The transition between two Styles: Style::compute_update (crate::style) *)
(* and `impl fmt::Display for Infix`.                                      *)
(***************************************************************************)
\* next drops an attribute or a color that current has
Removes(cur, nxt) ==
    \/ Attrs(cur) \ Attrs(nxt) # {}
    \/ cur.foreground # None /\ nxt.foreground = None
    \/ cur.background # None /\ nxt.background = None

\* what next adds to current: the new attributes and the changed colors
Delta(cur, nxt) ==
    MkStyle(Attrs(nxt) \ Attrs(cur),
            IF cur.foreground # nxt.foreground THEN nxt.foreground ELSE None,
            IF cur.background # nxt.background THEN nxt.background ELSE None,
            FALSE)

\* None for equal Styles; after a removal, next behind a reset; else the delta
compute_update(cur, nxt) ==
    IF cur = nxt THEN None
    ELSE IF Removes(cur, nxt)
         THEN Some([nxt EXCEPT !.prefix_with_reset = TRUE])
         ELSE Some(Delta(cur, nxt))

\* a mutant of Infix_fmt: every transition resets and writes next's prefix
Infix_fmt_always_reset(cur, nxt, w) ==
    write_prefix(nxt, write_q(w, RESET))

\* a mutant of Infix_fmt: the update is written even when there is none
Infix_fmt_no_none(cur, nxt, w) ==
    LET update == compute_update(cur, nxt)
    IN  IF update.tag = "Some" THEN write_prefix(update.val, w)
        ELSE write_codes(nxt, w)

\* <Infix as Display>::fmt
Infix_fmt(cur, nxt, w) ==
    LET update == compute_update(cur, nxt)
    IN  IF update.tag = "Some" THEN write_prefix(update.val, w) ELSE w

\* <Prefix as Display>::fmt and <Suffix as Display>::fmt
\* a mutant of Prefix_fmt: nothing is written
Prefix_fmt_nothing(s, w) == w

Prefix_fmt(s, w) == write_prefix(s, w)

Suffix_fmt(s, w) == write_suffix(s, w)

(***************************************************************************)
(* Input sets.                                                             *)
(***************************************************************************)
\* colors the builder may set: a named one, a bright one (three-digit
\* background code), an indexed one and a true-color one
BuildColors ==
    {Named("White"), Named("LightRed"), Fixed(100), Rgb(70, 130, 180)}

\* the Styles written to a failing sink: every attribute set, each color
\* absent or present
FailStyles ==
    {MkStyle(as, fg, bg, rst) :
        as \in SUBSET AttrSet,
        fg \in {None, Some(Fixed(100))},
        bg \in {None, Some(Named("LightRed"))},
        rst \in BOOLEAN}

\* the attributes that vary in a transition pair
PairAttrs == {AttrFields[i] : i \in 1..NumPairAttrs}

\* the foreground colors of a transition pair
PairColors == {Named("White"), Named("Blue")}

PairStyles ==
    {MkStyle(as, fg, bg, rst) :
        as \in SUBSET PairAttrs,
        fg \in {None} \cup {Some(c) : c \in PairColors},
        bg \in {None, Some(Fixed(7)), Some(Named("LightRed"))},
        rst \in BOOLEAN}

\* the operands of Color::infix: every named color, indexed and true colors
Colors ==
    {Named(k) : k \in NamedKinds}
        \cup {Fixed(0), Fixed(100), Fixed(255)}
        \cup {Rgb(70, 130, 180), Rgb(5, 10, 15)}

(***************************************************************************)
(* The state machine.  current is the Style under construction (Infix.0),  *)
(* next the second Style of a transition (Infix.1), f the caller's sink,   *)
(* pc what the caller holds ("build": a Style, "pair": two Styles) or the  *)
(* call it has made on the sink.                                           *)
(***************************************************************************)
TypeOK ==
    /\ gnu_legacy \in BOOLEAN
    /\ pc \in {"build", "pair", "prefix", "suffix", "infix", "color_infix",
              "paint"}
    /\ f.kind \in {"fmt", "io"}
    /\ f.writes \in Nat
    /\ f.failed \in BOOLEAN

\* Style::default() and an empty sink that never fails
Init ==
    /\ gnu_legacy \in BOOLEAN
    /\ current = StyleDefault
    /\ next = StyleDefault
    /\ text = <<>>
    /\ f = NewSink(0)
    /\ pc = "build"

\* Style::bold, dimmed, italic, underline, blink, reverse, hidden, strikethrough
SetAttribute ==
    /\ pc = "build"
    /\ \E a \in AttrSet : current' = [current EXCEPT ![a] = TRUE]
    /\ UNCHANGED <<gnu_legacy, next, text, f, pc>>

\* Style::fg
SetFg ==
    /\ pc = "build"
    /\ \E c \in BuildColors : current' = [current EXCEPT !.foreground = Some(c)]
    /\ UNCHANGED <<gnu_legacy, next, text, f, pc>>

\* Style::on / Style::bg
SetBg ==
    /\ pc = "build"
    /\ \E c \in BuildColors : current' = [current EXCEPT !.background = Some(c)]
    /\ UNCHANGED <<gnu_legacy, next, text, f, pc>>

\* Style::prefix_with_reset / reset_before_style
SetPrefixWithReset ==
    /\ pc = "build"
    /\ current' = [current EXCEPT !.prefix_with_reset = TRUE]
    /\ UNCHANGED <<gnu_legacy, next, text, f, pc>>

\* style.prefix() displayed into f
DisplayPrefix ==
    /\ pc = "build"
    /\ f' = Prefix_fmt(current, f)
    /\ pc' = "prefix"
    /\ UNCHANGED <<gnu_legacy, current, next, text>>

\* style.suffix() displayed into f
DisplaySuffix ==
    /\ pc = "build"
    /\ f' = Suffix_fmt(current, f)
    /\ pc' = "suffix"
    /\ UNCHANGED <<gnu_legacy, current, next, text>>

\* current.infix(next) displayed into f
DisplayInfix ==
    /\ pc = "pair"
    /\ f' = Infix_fmt(current, next, f)
    /\ pc' = "infix"
    /\ UNCHANGED <<gnu_legacy, current, next, text>>

\* Color::infix: Infix(self.normal(), next.normal()) displayed into f, for
\* the colors ca and cb whose normal Styles the caller holds
ColorInfix ==
    /\ pc = "pair"
    /\ current.foreground # None
    /\ next.foreground # None
    /\ LET ca == current.foreground.val
           cb == next.foreground.val
       IN  /\ current = normal(ca)
           /\ next = normal(cb)
           /\ f' = Infix_fmt(normal(ca), normal(cb), f)
    /\ pc' = "color_infix"
    /\ UNCHANGED <<gnu_legacy, current, next, text>>

\* style.paint(input).to_string() on a character sink,
\* style.paint(input.as_bytes()).write_to(&mut v) on a byte sink: the prefix,
\* the string as the sink's kind of buffer holds it, the suffix, each write
\* followed by `?`
Paint ==
    /\ pc = "build"
    /\ pc' = "paint"
    /\ \E string \in {IF f.kind = "io" THEN as_bytes(text) ELSE text} :
       \E w1 \in {Prefix_fmt(current, f)} :
       \E w2 \in {IF w1.failed THEN w1 ELSE sink_write(w1, string)} :
          f' = Suffix_fmt(current, w2)
    /\ UNCHANGED <<gnu_legacy, current, next, text>>

Next ==
    \/ SetAttribute
    \/ SetFg
    \/ SetBg
    \/ SetPrefixWithReset
    \/ DisplayPrefix
    \/ DisplaySuffix

\* one Style, built by the fluent interface, encoded into a sink that holds
Spec == Init /\ [][Next]_vars

\* any Style and a sink that fails on its fail_at-th write
InitFail ==
    /\ gnu_legacy \in BOOLEAN
    /\ current \in FailStyles
    /\ next = StyleDefault
    /\ text = <<>>
    /\ \E k \in 1..MaxFailAt : f = NewSink(k)
    /\ pc = "build"

NextFail ==
    \/ DisplayPrefix
    \/ DisplaySuffix

SpecFail == InitFail /\ [][NextFail]_vars

\* a pair of Styles, or of colors as Styles, and a sink that holds
InitInfix ==
    /\ gnu_legacy \in BOOLEAN
    /\ \/ current \in PairStyles /\ next \in PairStyles
       \/ \E ca \in Colors, cb \in Colors :
             current = normal(ca) /\ next = normal(cb)
    /\ text = <<>>
    /\ f = NewSink(0)
    /\ pc = "pair"

NextInfix ==
    \/ DisplayInfix
    \/ ColorInfix

SpecInfix == InitInfix /\ [][NextInfix]_vars

\* every color: the named ones, every index, true colors with components of
\* one, two and three digits
Bytes == 0..255

ByteSamples == {0, 9, 10, 99, 100, 255}

AllColors ==
    {Named(k) : k \in NamedKinds}
        \cup {Fixed(n) : n \in Bytes}
        \cup {Rgb(r, g, b) : r \in ByteSamples, g \in ByteSamples,
                               b \in ByteSamples}

\* a Style that is one color, as foreground or as background, or two colors
ColorStyles ==
    {MkStyle({}, Some(c), None, FALSE) : c \in AllColors}
        \cup {MkStyle({}, None, Some(c), FALSE) : c \in AllColors}
        \cup {MkStyle({}, Some(c), Some(d), FALSE) : c \in Colors, d \in Colors}

InitColor ==
    /\ gnu_legacy \in BOOLEAN
    /\ current \in ColorStyles
    /\ next = StyleDefault
    /\ text = <<>>
    /\ f = NewSink(0)
    /\ pc = "build"

NextColor ==
    \/ DisplayPrefix
    \/ DisplaySuffix

SpecColor == InitColor /\ [][NextColor]_vars

\* Styles and pairs together: every way the encoders are reached
InitAll == Init \/ InitInfix

NextAll ==
    \/ SetAttribute
    \/ SetFg
    \/ SetBg
    \/ SetPrefixWithReset
    \/ DisplayPrefix
    \/ DisplaySuffix
    \/ DisplayInfix
    \/ ColorInfix

SpecAll == InitAll /\ [][NextAll]_vars

(***************************************************************************)
(* Vocabulary of the properties.                                           *)
(***************************************************************************)
\* what write_prefix / write_suffix give a sink that never fails
PrefixRun(s) == write_prefix(s, NewSink(0))

SuffixRun(s) == write_suffix(s, NewSink(0))

PrefixBytes(s) == PrefixRun(s).buf

Plain(s) ==
    /\ \A a \in AttrSet : ~s[a]
    /\ s.foreground.tag = "None"
    /\ s.background.tag = "None"

IsPrefixOf(a, b) == Len(a) <= Len(b) /\ SubSeq(b, 1, Len(a)) = a

HasToken(bytes, tok) ==
    \E i \in 1..(Len(bytes) - Len(tok) + 1) :
        SubSeq(bytes, i, i + Len(tok) - 1) = tok

RECURSIVE Flatten(_)
Flatten(frags) ==
    IF frags = <<>> THEN <<>> ELSE Head(frags) \o Flatten(Tail(frags))

\* the codes joined by one ";" between neighbours
RECURSIVE Join(_)
Join(codes) ==
    IF codes = <<>> THEN <<>>
    ELSE IF Len(codes) = 1 THEN codes[1]
    ELSE codes[1] \o <<";">> \o Join(Tail(codes))

\* the code of the i-th attribute: 1,2,3,4,5,7,8,9, two digits under gnu_legacy
AttrDigits == <<"1", "2", "3", "4", "5", "7", "8", "9">>

AttrCode(i) ==
    IF gnu_legacy THEN <<"0", AttrDigits[i]>> ELSE <<AttrDigits[i]>>

\* the codes of the attributes in as, in canonical order
RECURSIVE AttrCodes(_, _)
AttrCodes(as, i) ==
    IF i > Len(AttrFields) THEN <<>>
    ELSE (IF AttrFields[i] \in as THEN <<AttrCode(i)>> ELSE <<>>)
            \o AttrCodes(as, i + 1)

BgCodes(bg) == IF bg.tag = "Some" THEN <<background_code(bg.val)>> ELSE <<>>

FgCodes(fg) == IF fg.tag = "Some" THEN <<foreground_code(fg.val)>> ELSE <<>>

\* ESC[ codes m
Sequence(codes) == <<ESC, "[">> \o Join(codes) \o <<"m">>

\* every code of a Style: attributes, then background, then foreground
StyleCodes(s) ==
    AttrCodes(Attrs(s), 1) \o BgCodes(s.background) \o FgCodes(s.foreground)

\* the codes next adds to current
DeltaCodes(cur, nxt) ==
    AttrCodes(Attrs(nxt) \ Attrs(cur), 1)
        \o (IF nxt.background # cur.background
            THEN BgCodes(nxt.background) ELSE <<>>)
        \o (IF nxt.foreground # cur.foreground
            THEN FgCodes(nxt.foreground) ELSE <<>>)

(***************************************************************************)
(* A terminal: ESC[0m clears everything, an attribute code sets its        *)
(* attribute, a color code replaces the color of its channel.              *)
(***************************************************************************)
CleanTerm == [attrs |-> {}, fg |-> <<>>, bg |-> <<>>]

IsDigit(ch) == \E d \in 1..10 : DigitChars[d] = ch

DigitVal(ch) == (CHOOSE d \in 1..10 : DigitChars[d] = ch) - 1

IsFgCode(n) == n \in 30..37 \/ n = 39 \/ n \in 90..97

IsBgCode(n) == n \in 40..47 \/ n = 49 \/ n \in 100..107

\* the terminal after the parameters ps[i..] of one sequence
RECURSIVE ApplyCodes(_, _, _)
ApplyCodes(ps, i, t) ==
    IF i > Len(ps) THEN t
    ELSE LET n == ps[i]
             ext == IF i + 1 <= Len(ps) /\ ps[i + 1] = 5 THEN 3
                    ELSE IF i + 1 <= Len(ps) /\ ps[i + 1] = 2 THEN 5
                    ELSE 1
             last == IF i + ext - 1 <= Len(ps) THEN i + ext - 1 ELSE Len(ps)
         IN  CASE n = 0 -> ApplyCodes(ps, i + 1, CleanTerm)
               [] n \in 1..9 ->
                    ApplyCodes(ps, i + 1, [t EXCEPT !.attrs = @ \cup {n}])
               [] IsFgCode(n) -> ApplyCodes(ps, i + 1, [t EXCEPT !.fg = <<n>>])
               [] IsBgCode(n) -> ApplyCodes(ps, i + 1, [t EXCEPT !.bg = <<n>>])
               [] n = 38 ->
                    ApplyCodes(ps, last + 1,
                               [t EXCEPT !.fg = SubSeq(ps, i, last)])
               [] n = 48 ->
                    ApplyCodes(ps, last + 1,
                               [t EXCEPT !.bg = SubSeq(ps, i, last)])
               [] OTHER -> ApplyCodes(ps, i + 1, t)

\* the terminal after bytes[i..]; ps are the parameters read so far of the
\* sequence being read and num the digits of the one being read (-1: none)
RECURSIVE Receive(_, _, _, _, _)
Receive(bytes, i, ps, num, t) ==
    IF i > Len(bytes) THEN t
    ELSE LET ch == bytes[i]
         IN  CASE ch = ESC -> Receive(bytes, i + 1, <<>>, -1, t)
               [] ch = "[" -> Receive(bytes, i + 1, <<>>, -1, t)
               [] ch = ";" ->
                    Receive(bytes, i + 1,
                            IF num >= 0 THEN Append(ps, num) ELSE ps, -1, t)
               [] ch = "m" ->
                    Receive(bytes, i + 1, <<>>, -1,
                            ApplyCodes(IF num >= 0 THEN Append(ps, num) ELSE ps,
                                       1, t))
               [] IsDigit(ch) ->
                    Receive(bytes, i + 1, ps,
                            (IF num >= 0 THEN num * 10 ELSE 0) + DigitVal(ch), t)
               [] OTHER -> Receive(bytes, i + 1, ps, num, t)

Term(bytes) == Receive(bytes, 1, <<>>, -1, CleanTerm)

(***************************************************************************)
(* The claims.                                                             *)
(***************************************************************************)
\* C1 (as stated): a clean terminal that received write_prefix(current) and
\* then infix(current, next) is in the state a clean terminal is in after
\* write_prefix(next) alone.
C1_InfixReachesNext ==
    pc = "infix" =>
        Term(PrefixBytes(current) \o f.buf) = Term(PrefixBytes(next))

\* C2 (as stated): when next drops an attribute or a color of current, the
\* infix is ESC[0m followed by write_prefix(next) verbatim (ESC[0m alone when
\* next is plain).
C2_RemovalResetsThenPrefix ==
    (pc = "infix" /\ Removes(current, next)) =>
        f.buf = RESET \o PrefixBytes(next)

\* C3 (as stated): for distinct Styles where next drops nothing, the infix has
\* no reset token and is the single sequence ESC[ codes m of the attributes
\* next adds and of each color channel that changed.
C3_AdditiveIsOneSequence ==
    (pc = "infix" /\ current # next /\ ~Removes(current, next)) =>
        /\ ~HasToken(f.buf, RESET)
        /\ f.buf = Sequence(DeltaCodes(current, next))

\* C3 (amended): the same, when next adds an attribute or changes a color;
\* two Styles that differ in prefix_with_reset alone give an empty infix.
C3_AdditiveIsOneSequenceOrEmpty ==
    (pc = "infix" /\ current # next /\ ~Removes(current, next)) =>
        /\ ~HasToken(f.buf, RESET)
        /\ f.buf = IF DeltaCodes(current, next) = <<>> THEN <<>>
                   ELSE Sequence(DeltaCodes(current, next))

\* bold -> bold + dimmed + blue on Fixed(7): only the three new codes
C3_Witness ==
    /\ pc = "infix"
    /\ ~gnu_legacy
    /\ current = MkStyle({"is_bold"}, None, None, FALSE)
    /\ next = MkStyle({"is_bold", "is_dimmed"}, Some(Named("Blue")),
                      Some(Fixed(7)), TRUE)
    /\ f.buf = <<ESC, "[", "2", ";", "4", "8", ";", "5", ";", "7", ";",
                 "3", "4", "m">>

\* C4: infix(S, S) writes nothing, whatever S's flags, colors and reset flag;
\* Color::infix(c, c) writes nothing.
C4_InfixOfEqualIsEmpty ==
    (pc \in {"infix", "color_infix"} /\ current = next) =>
        /\ f.buf = <<>>
        /\ f.writes = 0

C4_Witness ==
    /\ pc = "infix"
    /\ current = next
    /\ current.prefix_with_reset
    /\ current.is_bold
    /\ current.foreground # None
    /\ f.writes = 0

\* C5: write_prefix(S) writes zero bytes exactly when S is plain.
C5_PrefixEmptyIffPlain ==
    pc = "prefix" => (f.buf = <<>> <=> Plain(current))

\* a Style with nothing but prefix_with_reset is plain and writes nothing
C5_Witness ==
    /\ pc = "prefix"
    /\ current = [StyleDefault EXCEPT !.prefix_with_reset = TRUE]
    /\ f.buf = <<>>

\* C6: write_suffix(S) writes nothing for a plain S and exactly ESC[0m for
\* any other S.
C6_SuffixIsResetOrNothing ==
    pc = "suffix" => f.buf = IF Plain(current) THEN <<>> ELSE RESET

C6_Witness ==
    /\ pc = "suffix"
    /\ current.is_italic
    /\ current.background = Some(Rgb(70, 130, 180))
    /\ f.buf = RESET

\* C7: for a non-plain S the sequence write_prefix(S) writes is ESC[, the
\* codes of S's attributes in the order 1,2,3,4,5,7,8,9, the background code,
\* the foreground code, m, with exactly one ";" between neighbours.
C7_PrefixCodeList ==
    (pc = "prefix" /\ ~Plain(current)) =>
        /\ \E pre \in {<<>>, RESET} :
              f.buf = pre \o Sequence(StyleCodes(current))
        /\ ~HasToken(f.buf, <<"[", ";">>)
        /\ ~HasToken(f.buf, <<";", ";">>)
        /\ ~HasToken(f.buf, <<";", "m">>)

\* every attribute and both colors: \x1B[1;2;3;4;5;7;8;9;101;38;5;100m
C7_Witness ==
    /\ pc = "prefix"
    /\ ~gnu_legacy
    /\ current = MkStyle(AttrSet, Some(Fixed(100)), Some(Named("LightRed")),
                         FALSE)
    /\ f.buf = <<ESC, "[", "1", ";", "2", ";", "3", ";", "4", ";", "5", ";",
                 "7", ";", "8", ";", "9", ";", "1", "0", "1", ";",
                 "3", "8", ";", "5", ";", "1", "0", "0", "m">>

\* C8: with prefix_with_reset set on a non-plain S, write_prefix(S) is ESC[0m
\* followed by the prefix of S without the flag; the reset comes before the
\* sequence start and is not repeated in the code list.
C8_ResetThenPrefix ==
    (pc = "prefix" /\ current.prefix_with_reset /\ ~Plain(current)) =>
        LET rest == PrefixBytes([current EXCEPT !.prefix_with_reset = FALSE])
        IN  /\ f.buf = RESET \o rest
            /\ SubSeq(rest, 1, 2) = <<ESC, "[">>
            /\ ~HasToken(rest, RESET)
            /\ f.log[1] = RESET

\* \x1B[0m\x1B[1m
C8_Witness ==
    /\ pc = "prefix"
    /\ ~gnu_legacy
    /\ current = MkStyle({"is_bold"}, None, None, TRUE)
    /\ f.buf = <<ESC, "[", "0", "m", ESC, "[", "1", "m">>

\* C9: no output of write_prefix or of an infix holds the vacuous sequence
\* ESC[m: after every ESC[ comes a numeric code.
C9_NoVacuousSequence ==
    \A i \in 1..Len(f.buf) :
        (f.buf[i] = ESC) =>
            /\ i + 2 <= Len(f.buf)
            /\ f.buf[i + 1] = "["
            /\ IsDigit(f.buf[i + 2])

C9_Witness ==
    /\ pc = "infix"
    /\ current = MkStyle({}, None, None, FALSE)
    /\ next = MkStyle({}, None, None, TRUE)
    /\ f.buf = <<>>

\* C10: on a sink that fails on its k-th write, write_prefix and write_suffix
\* return the error at that write, write nothing after it and roll nothing
\* back: the sink holds the fragments written before the failure, a prefix of
\* what a sink that never fails receives.
C10_FirstFailurePropagates ==
    pc \in {"prefix", "suffix"} =>
        LET full == IF pc = "prefix" THEN PrefixRun(current)
                    ELSE SuffixRun(current)
        IN  IF f.fail_at \in 1..full.writes
            THEN /\ Result(f) = "Err"
                 /\ f.writes = f.fail_at
                 /\ f.log = SubSeq(full.log, 1, f.fail_at - 1)
                 /\ f.buf = Flatten(SubSeq(full.log, 1, f.fail_at - 1))
                 /\ IsPrefixOf(f.buf, full.buf)
            ELSE /\ Result(f) = "Ok"
                 /\ f.buf = full.buf
                 /\ f.writes = full.writes

\* the fifth write of a prefix fails: four fragments are in the sink
C10_Witness ==
    /\ pc = "prefix"
    /\ f.fail_at = 5
    /\ f.failed
    /\ f.writes = 5
    /\ Len(f.log) = 4
    /\ current.prefix_with_reset

(***************************************************************************)
(* The color table, by number.                                             *)
(***************************************************************************)
StandardNames ==
    <<"Black", "Red", "Green", "Yellow", "Blue", "Purple", "Cyan", "White">>

BrightNames ==
    <<"DarkGray", "LightRed", "LightGreen", "LightYellow", "LightBlue",
      "LightPurple", "LightCyan", "LightGray">>

IndexIn(names, k) == CHOOSE i \in 1..Len(names) : names[i] = k

\* Magenta is Purple and LightMagenta is LightPurple
Unalias(k) ==
    IF k = "Magenta" THEN "Purple"
    ELSE IF k = "LightMagenta" THEN "LightPurple"
    ELSE k

\* the foreground number of a named color: 30..37, 39, 90..97
FgNumber(k) ==
    LET u == Unalias(k)
    IN  IF u = "Default" THEN 39
        ELSE IF \E i \in 1..Len(StandardNames) : StandardNames[i] = u
             THEN 29 + IndexIn(StandardNames, u)
             ELSE 89 + IndexIn(BrightNames, u)

\* the numbers of a color's fragment, foreground (base 38) or background
\* (base 48, and the named number plus 10)
ColorNumbers(c, base) ==
    IF c.kind = "Fixed" THEN <<base, 5, c.num>>
    ELSE IF c.kind = "Rgb" THEN <<base, 2, c.r, c.g, c.b>>
    ELSE <<FgNumber(c.kind) + (base - 38)>>

ColorFragment(c, base) ==
    Join([i \in 1..Len(ColorNumbers(c, base)) |->
            Decimal(ColorNumbers(c, base)[i])])

UnaliasColor(c) ==
    IF c.kind \in NamedKinds THEN Named(Unalias(c.kind)) ELSE c

UnaliasOpt(o) == IF o.tag = "Some" THEN Some(UnaliasColor(o.val)) ELSE o

\* C11: every color has its fixed code: 30-37, 39, 90-97 for a named
\* foreground and that plus 10 for the background, 38;5;n / 48;5;n for
\* Fixed(n), 38;2;r;g;b / 48;2;r;g;b for Rgb(r,g,b); Purple and Magenta, and
\* LightPurple and LightMagenta, are written alike.
C11_ColorCodes ==
    pc = "prefix" =>
        /\ f.buf =
              Sequence(
                (IF current.background.tag = "Some"
                 THEN <<ColorFragment(current.background.val, 48)>> ELSE <<>>)
                \o (IF current.foreground.tag = "Some"
                    THEN <<ColorFragment(current.foreground.val, 38)>>
                    ELSE <<>>))
        /\ f.buf = PrefixBytes([current EXCEPT
                                   !.foreground = UnaliasOpt(@),
                                   !.background = UnaliasOpt(@)])

\* LightMagenta on LightPurple: \x1B[105;95m
C11_Witness ==
    /\ pc = "prefix"
    /\ current.foreground = Some(Named("LightMagenta"))
    /\ current.background = Some(Named("LightPurple"))
    /\ f.buf = <<ESC, "[", "1", "0", "5", ";", "9", "5", "m">>

(***************************************************************************)
(* The two builds compared: Styles with every set of attributes, with     *)
(* colors whose parameters are single digits, with and without the reset  *)
(* prefix.                                                                 *)
(***************************************************************************)
LegacyFgs == {None, Some(Named("White")), Some(Fixed(7)), Some(Rgb(5, 10, 15))}

LegacyBgs == {None, Some(Named("LightRed")), Some(Fixed(5))}

LegacyStyles ==
    {MkStyle(as, fg, bg, rst) :
        as \in SUBSET AttrSet, fg \in LegacyFgs, bg \in LegacyBgs,
        rst \in BOOLEAN}

InitLegacy ==
    /\ gnu_legacy \in BOOLEAN
    /\ current \in LegacyStyles
    /\ next = StyleDefault
    /\ text = <<>>
    /\ f = NewSink(0)
    /\ pc = "build"

NextLegacy ==
    \/ DisplayPrefix
    \/ DisplaySuffix

SpecLegacy == InitLegacy /\ [][NextLegacy]_vars

\* The bytes with every attribute code of every sequence in two digits.  At
\* the start of a parameter of a sequence that has had only attribute codes so
\* far (atAttr), a parameter that is one of the digits 1-5, 7-9 alone is an
\* attribute code and gets a "0" in front; any other parameter ends the
\* attribute codes of the sequence.
RECURSIVE ToLegacy(_, _, _)
ToLegacy(bytes, i, atAttr) ==
    IF i > Len(bytes) THEN <<>>
    ELSE IF bytes[i] = "["
    THEN <<"[">> \o ToLegacy(bytes, i + 1, i > 1 /\ bytes[i - 1] = ESC)
    ELSE IF /\ atAttr
            /\ \E k \in 1..Len(AttrDigits) : AttrDigits[k] = bytes[i]
            /\ i < Len(bytes)
            /\ bytes[i + 1] \in {";", "m"}
    THEN <<"0", bytes[i], bytes[i + 1]>>
            \o ToLegacy(bytes, i + 2, bytes[i + 1] = ";")
    ELSE <<bytes[i]>> \o ToLegacy(bytes, i + 1, FALSE)

\* what write_prefix writes for the Style in the build without gnu_legacy
DefaultBuildBytes(s) == write_prefix_default_build(s, NewSink(0)).buf

\* C12: in a gnu_legacy build the prefix is the default build's prefix with
\* each attribute code in its zero-padded two-digit form and nothing else
\* changed: the color codes, the separators and the reset \x1B[0m are the
\* same; the suffix is the same in both builds.
C12_LegacyPadsAttributeCodes ==
    /\ (pc = "prefix" /\ gnu_legacy) =>
            f.buf = ToLegacy(DefaultBuildBytes(current), 1, FALSE)
    /\ (pc = "prefix" /\ ~gnu_legacy) => f.buf = DefaultBuildBytes(current)
    /\ pc = "suffix" => f.buf = (IF is_plain(current) THEN <<>> ELSE RESET)

\* gnu_legacy, reset prefix, bold and strikethrough, Fixed(7) on Fixed(5):
\* \x1B[0m\x1B[01;09;48;5;5;38;5;7m, where the default build writes
\* \x1B[0m\x1B[1;9;48;5;5;38;5;7m
C12_Witness ==
    /\ pc = "prefix"
    /\ gnu_legacy
    /\ f.buf = <<ESC, "[", "0", "m", ESC, "[", "0", "1", ";", "0", "9", ";",
                 "4", "8", ";", "5", ";", "5", ";",
                 "3", "8", ";", "5", ";", "7", "m">>
    /\ DefaultBuildBytes(current) =
            <<ESC, "[", "0", "m", ESC, "[", "1", ";", "9", ";",
              "4", "8", ";", "5", ";", "5", ";",
              "3", "8", ";", "5", ";", "7", "m">>

(***************************************************************************)
(* Painting a text into a character sink and into a byte sink.             *)
(***************************************************************************)
TextChars == {"h", "i", "m", EAcute}

Texts == UNION {[1..n -> TextChars] : n \in 0..MaxTextLen}

\* the Styles that paint: those of a transition pair, and two of the
\* source's tests (yellow_bold, rgb_on_rgb)
PaintStyles ==
    PairStyles
        \cup {MkStyle({"is_bold"}, Some(Named("Yellow")), None, FALSE),
              MkStyle({}, Some(Rgb(70, 130, 180)), Some(Rgb(5, 10, 15)),
                      FALSE)}

InitPaint ==
    /\ gnu_legacy \in BOOLEAN
    /\ current \in PaintStyles
    /\ next = StyleDefault
    /\ text \in Texts
    /\ f \in {NewSink(0), NewByteSink(0)}
    /\ pc = "build"

NextPaint ==
    \/ Paint
    \/ DisplayPrefix
    \/ DisplaySuffix

SpecPaint == InitPaint /\ [][NextPaint]_vars

\* the painted text as characters: what write_prefix and write_suffix write
\* into a character sink, around the text
Painted(s, t) == PrefixBytes(s) \o t \o SuffixRun(s).buf

====
